---- MODULE Spec2Model ----
(***************************************************************************)
(* Image invocations of invokeai/app/invocations/image.py.                 *)
(*                                                                         *)
(* The image store (context.services.images) is a sequence of records;    *)
(* an image's name is its index.  An image is a record                     *)
(*   [mode, width, height, px]  with px : (0..w-1) \X (0..h-1) -> bands,   *)
(* bands being a tuple of 8-bit values, one per band of the mode.          *)
(* Every invoke is one action: it reads its inputs, computes its result   *)
(* and performs its create call, or fails with the store untouched.        *)
(***************************************************************************)
EXTENDS Integers, Sequences, FiniteSets, TLC

\* ---------------------------------------------------------------- bounds
\* Largest crop rectangle side tried.
MaxDim == 2
\* Largest magnitude of a crop or paste offset tried.
MaxOff == 2
\* Largest number of invokes in a run of the whole catalogue of invocations.
MaxInvokes == 1
\* Largest side of a stored image that is given to an invocation as an input.
MaxSide == 2
\* Most mask-from-alpha invocations in one run of SpecMask.
MaskRuns == 2
\* Most channel invocations in one run of SpecChannel.
ChannelRuns == 2

\* ---------------------------------------------------------------- helpers
Min(a, b) == IF a < b THEN a ELSE b
Max(a, b) == IF a > b THEN a ELSE b
Abs(a) == IF a < 0 THEN -a ELSE a

Pos(w, h) == (0 .. w - 1) \X (0 .. h - 1)

\* Number of bands of a PIL mode.
Bands(mode) ==
    CASE mode = "L" -> 1
      [] mode = "LA" -> 2
      [] mode = "RGB" -> 3
      [] mode = "RGBA" -> 4

\* Image.new(mode="RGBA", size=(w, h), color=(0, 0, 0, 0))
NewRGBA(w, h) ==
    [mode |-> "RGBA", width |-> w, height |-> h,
     px |-> [p \in Pos(w, h) |-> <<0, 0, 0, 0>>]]

\* Image.Image.convert to "RGBA", per pixel.
ToRGBA(mode, b) ==
    CASE mode = "L" -> <<b[1], b[1], b[1], 255>>
      [] mode = "LA" -> <<b[1], b[1], b[1], b[2]>>
      [] mode = "RGB" -> <<b[1], b[2], b[3], 255>>
      [] mode = "RGBA" -> b

\* Image.Image.paste(im, (ox, oy)) into an RGBA image, no mask: im is
\* converted to RGBA and copied over the part of the box inside dst.
PasteRGBA(dst, im, ox, oy) ==
    [dst EXCEPT !.px =
        [p \in Pos(dst.width, dst.height) |->
            IF <<p[1] - ox, p[2] - oy>> \in Pos(im.width, im.height)
            THEN ToRGBA(im.mode, im.px[<<p[1] - ox, p[2] - oy>>])
            ELSE dst.px[p]]]

\* ---------------------------------------------------------------- images
\* An image from its rows (top to bottom), each a sequence of band tuples.
MkImage(mode, rows) ==
    [mode |-> mode, width |-> Len(rows[1]), height |-> Len(rows),
     px |-> [p \in Pos(Len(rows[1]), Len(rows)) |-> rows[p[2] + 1][p[1] + 1]]]

\* The images the store holds before any invocation runs: one per band
\* layout, with opaque, translucent and fully transparent pixels.
ImgRGBA == MkImage("RGBA", << << <<255, 0, 0, 255>>, <<0, 200, 0, 128>> >>,
                              << <<10, 20, 30, 0>>, <<0, 0, 255, 255>> >> >>)
ImgRGB == MkImage("RGB", << << <<250, 128, 1>>, <<0, 64, 255>> >> >>)
ImgL == MkImage("L", << << <<0>> >> >>)
ImgLA == MkImage("LA", << << <<255, 0>> >>, << <<90, 255>> >> >>)
ImgDot == MkImage("RGBA", << << <<7, 99, 180, 255>> >> >>)

\* A record of the store as it is before any invocation of this file ran.
External(img) ==
    [image |-> img, image_origin |-> "EXTERNAL", image_category |-> "GENERAL",
     node_id |-> 0, session_id |-> 0, is_intermediate |-> FALSE,
     metadata |-> FALSE]

Catalogue ==
    << External(ImgRGBA), External(ImgRGB), External(ImgL), External(ImgLA),
       External(ImgDot) >>

\* ---------------------------------------------------------------- state
VARIABLES
    store,   \* context.services.images: name (index) -> stored record
    last,    \* the latest invoke: its fields, its inputs and what it did
    ninv     \* number of invokes performed

vars == <<store, last, ninv>>

\* An ImageField that names no stored image, and an absent Optional mask.
Missing == 0
NoMask == -1

\* context.services.images.get_pil_image(name) raises unless name is stored.
Exists(name) == name \in 1 .. Len(store)
GetPilImage(name) == store[name].image

\* context.services.images.create(...): a new record under a fresh name.
ImagesCreate(st, rec) == Append(st, rec)

\* (node id, session id, is_intermediate) of the invocations tried.
Contexts ==
    { [id |-> 1, session |-> 7, is_intermediate |-> TRUE],
      [id |-> 2, session |-> 8, is_intermediate |-> FALSE] }

NoCall ==
    [type |-> "none", ctx |-> [id |-> 0, session |-> 0, is_intermediate |-> FALSE],
     inputs |-> << >>, args |-> [none |-> 0], status |-> "none", output |-> Missing,
     width |-> 0, height |-> 0, divByZero |-> FALSE, checkerLoaded |-> FALSE]

Call(type, ctx, inputs, args) ==
    [NoCall EXCEPT !.type = type, !.ctx = ctx, !.inputs = inputs, !.args = args]

\* The invoke raised: nothing was created, nothing is returned.
Raise(call) ==
    /\ last' = [call EXCEPT !.status = "error"]
    /\ store' = store
    /\ ninv' = ninv + 1

\* The create call every deriving invoke ends with, and the output built
\* from the record it returns.
CreateArgs(call, img, category, metadata) ==
    [image |-> img, image_origin |-> "INTERNAL", image_category |-> category,
     node_id |-> call.ctx.id, session_id |-> call.ctx.session,
     is_intermediate |-> call.ctx.is_intermediate, metadata |-> metadata]

CreateAndReturn(call, img, category, metadata) ==
    /\ store' = ImagesCreate(store, CreateArgs(call, img, category, metadata))
    /\ last' = [call EXCEPT !.status = "ok", !.output = Len(store) + 1,
                            !.width = img.width, !.height = img.height]
    /\ ninv' = ninv + 1

\* ---------------------------------------------------------------- load / show
LoadImageInvoke(ctx, name) ==
    LET call == Call("load_image", ctx, <<name>>, [none |-> 0]) IN
    IF ~Exists(name) THEN Raise(call)
    ELSE /\ last' = [call EXCEPT !.status = "ok", !.output = name,
                                 !.width = GetPilImage(name).width,
                                 !.height = GetPilImage(name).height]
         /\ store' = store
         /\ ninv' = ninv + 1

ShowImageInvoke(ctx, name) ==
    LET call == Call("show_image", ctx, <<name>>, [none |-> 0]) IN
    IF ~Exists(name) THEN Raise(call)
    ELSE /\ last' = [call EXCEPT !.status = "ok", !.output = name,
                                 !.width = GetPilImage(name).width,
                                 !.height = GetPilImage(name).height]
         /\ store' = store
         /\ ninv' = ninv + 1

\* ---------------------------------------------------------------- crop
\* CropImage with the source pasted at (x, y) instead of (-x, -y).
CropImageUnnegated(image, x, y, width, height) ==
    PasteRGBA(NewRGBA(width, height), image, x, y)

\* The canvas ImageCropInvocation builds from the source.
CropImage(image, x, y, width, height) ==
    PasteRGBA(NewRGBA(width, height), image, -x, -y)

\* ImageCropInvoke creating its record as a final image whatever its flag.
ImageCropInvokeFinal(ctx, name, x, y, width, height) ==
    LET call == Call("img_crop", ctx, <<name>>,
                     [x |-> x, y |-> y, width |-> width, height |-> height])
        img == PasteRGBA(NewRGBA(width, height), GetPilImage(name), -x, -y)
    IN  IF ~Exists(name) THEN Raise(call)
        ELSE /\ store' = ImagesCreate(store,
                    [CreateArgs(call, img, "GENERAL", FALSE)
                        EXCEPT !.is_intermediate = FALSE])
             /\ last' = [call EXCEPT !.status = "ok", !.output = Len(store) + 1,
                                     !.width = img.width, !.height = img.height]
             /\ ninv' = ninv + 1

ImageCropInvoke(ctx, name, x, y, width, height) ==
    LET call == Call("img_crop", ctx, <<name>>,
                     [x |-> x, y |-> y, width |-> width, height |-> height]) IN
    IF ~Exists(name) THEN Raise(call)
    ELSE CreateAndReturn(call, CropImage(GetPilImage(name), x, y, width, height),
                         "GENERAL", FALSE)

\* ---------------------------------------------------------------- paste
\* ImageOps.invert: defined for the modes L and RGB only.
CanInvert(image) == image.mode \in {"L", "RGB"}
Invert(image) ==
    [image EXCEPT !.px = [p \in DOMAIN image.px |->
        [k \in 1 .. Bands(image.mode) |-> 255 - image.px[p][k]]]]

\* Pillow's integer blend of dst and src under an 8-bit mask value m.
Blend(m, dst, src) ==
    LET tmp == dst * (255 - m) + src * m + 128
    IN  ((tmp \div 256) + tmp) \div 256

\* Image.Image.paste(im, (ox, oy), mask) into an RGBA image with an L mask
\* of im's size: every band is blended under the mask's value.
PasteMaskedRGBA(dst, im, ox, oy, mask) ==
    [dst EXCEPT !.px =
        [p \in Pos(dst.width, dst.height) |->
            LET q == <<p[1] - ox, p[2] - oy>> IN
            IF q \in Pos(im.width, im.height)
            THEN [k \in 1 .. 4 |->
                    Blend(mask.px[q][1], dst.px[p][k], ToRGBA(im.mode, im.px[q])[k])]
            ELSE dst.px[p]]]

\* PasteCanvasSize without the extension to the left of and above the base.
PasteCanvasSizeNoMin(base_image, image, x, y) ==
    <<Max(base_image.width, image.width + x), Max(base_image.height, image.height + y)>>

\* Size of the canvas ImagePasteInvocation allocates.
PasteCanvasSize(base_image, image, x, y) ==
    LET min_x == Min(0, x)
        min_y == Min(0, y)
        max_x == Max(base_image.width, image.width + x)
        max_y == Max(base_image.height, image.height + y)
    IN  <<max_x - min_x, max_y - min_y>>

\* PasteBase pasting the base image at the canvas's origin whatever the
\* offset.
PasteBaseAtOrigin(base_image, image, x, y) ==
    LET size == PasteCanvasSize(base_image, image, x, y) IN
    PasteRGBA(NewRGBA(size[1], size[2]), base_image, 0, 0)

\* The canvas with the base image pasted, before the image is pasted.
PasteBase(base_image, image, x, y) ==
    LET size == PasteCanvasSize(base_image, image, x, y) IN
    PasteRGBA(NewRGBA(size[1], size[2]), base_image, Abs(Min(0, x)), Abs(Min(0, y)))

\* paste accepts an L mask of the pasted image's size; an inverted RGB mask
\* is "bad transparency mask", another size is "images do not match".
MaskFits(mask, image) ==
    /\ mask.mode = "L"
    /\ mask.width = image.width
    /\ mask.height = image.height

\* ImagePasteInvoke fetching its mask only after it stored the unmasked paste.
ImagePasteInvokeLateMask(ctx, base_name, name, mask_name, x, y) ==
    LET call == Call("img_paste", ctx, <<base_name, name, mask_name>>,
                     [x |-> x, y |-> y]) IN
    IF ~Exists(base_name) \/ ~Exists(name) THEN Raise(call)
    ELSE
        LET base_image == GetPilImage(base_name)
            image == GetPilImage(name)
            size == <<Max(base_image.width, image.width + x) - Min(0, x),
                      Max(base_image.height, image.height + y) - Min(0, y)>>
            pasted == PasteRGBA(PasteRGBA(NewRGBA(size[1], size[2]), base_image,
                                          Abs(Min(0, x)), Abs(Min(0, y))),
                                image, Max(0, x), Max(0, y))
        IN  IF mask_name = NoMask \/ Exists(mask_name)
            THEN CreateAndReturn(call, pasted, "GENERAL", FALSE)
            ELSE /\ store' = ImagesCreate(store,
                                 CreateArgs(call, pasted, "GENERAL", FALSE))
                 /\ last' = [call EXCEPT !.status = "error"]
                 /\ ninv' = ninv + 1

ImagePasteInvoke(ctx, base_name, name, mask_name, x, y) ==
    LET call == Call("img_paste", ctx, <<base_name, name, mask_name>>,
                     [x |-> x, y |-> y]) IN
    IF ~Exists(base_name) \/ ~Exists(name) THEN Raise(call)
    ELSE IF mask_name # NoMask /\ ~Exists(mask_name) THEN Raise(call)
    ELSE IF mask_name # NoMask /\ ~CanInvert(GetPilImage(mask_name)) THEN Raise(call)
    ELSE
        LET base_image == GetPilImage(base_name)
            image == GetPilImage(name)
            canvas == PasteBase(base_image, image, x, y)
        IN  IF mask_name = NoMask
            THEN CreateAndReturn(call,
                     PasteRGBA(canvas, image, Max(0, x), Max(0, y)), "GENERAL", FALSE)
            ELSE LET mask == Invert(GetPilImage(mask_name)) IN
                 IF ~MaskFits(mask, image) THEN Raise(call)
                 ELSE CreateAndReturn(call,
                          PasteMaskedRGBA(canvas, image, Max(0, x), Max(0, y), mask),
                          "GENERAL", FALSE)

\* ---------------------------------------------------------------- tomask
\* image.split()[-1]: the last band of the image, as an L image.
LastBand(image) ==
    [mode |-> "L", width |-> image.width, height |-> image.height,
     px |-> [p \in DOMAIN image.px |-> << image.px[p][Bands(image.mode)] >>]]

\* MaskFromAlphaInvoke inverting by two's complement (256 - a) instead of
\* ImageOps.invert's 255 - a.
MaskFromAlphaInvokeNegate(ctx, name, invert) ==
    LET call == Call("tomask", ctx, <<name>>, [invert |-> invert]) IN
    IF ~Exists(name) THEN Raise(call)
    ELSE LET image_mask == LastBand(GetPilImage(name))
             negated == [image_mask EXCEPT !.px = [p \in DOMAIN image_mask.px |->
                            << (256 - image_mask.px[p][1]) % 256 >>]]
         IN  CreateAndReturn(call, IF invert THEN negated ELSE image_mask,
                             "MASK", FALSE)

MaskFromAlphaInvoke(ctx, name, invert) ==
    LET call == Call("tomask", ctx, <<name>>, [invert |-> invert]) IN
    IF ~Exists(name) THEN Raise(call)
    ELSE LET image_mask == LastBand(GetPilImage(name)) IN
         CreateAndReturn(call, IF invert THEN Invert(image_mask) ELSE image_mask,
                         "MASK", FALSE)

\* ---------------------------------------------------------------- multiply
\* ImageChops.multiply: the operands need the same number of bands; the
\* result has the first operand's mode and the smaller of the two sizes.
CanMultiply(image1, image2) == Bands(image1.mode) = Bands(image2.mode)
Multiply(image1, image2) ==
    LET w == Min(image1.width, image2.width)
        h == Min(image1.height, image2.height)
    IN  [mode |-> image1.mode, width |-> w, height |-> h,
         px |-> [p \in Pos(w, h) |->
            [k \in 1 .. Bands(image1.mode) |->
                (image1.px[p][k] * image2.px[p][k]) \div 255]]]

ImageMultiplyInvoke(ctx, name1, name2) ==
    LET call == Call("img_mul", ctx, <<name1, name2>>, [none |-> 0]) IN
    IF ~Exists(name1) THEN Raise(call)
    ELSE IF ~Exists(name2) THEN Raise(call)
    ELSE IF ~CanMultiply(GetPilImage(name1), GetPilImage(name2)) THEN Raise(call)
    ELSE CreateAndReturn(call, Multiply(GetPilImage(name1), GetPilImage(name2)),
                         "GENERAL", FALSE)

\* ---------------------------------------------------------------- channel
IMAGE_CHANNELS == {"A", "R", "G", "B"}

\* Index of a band name in a mode, 0 when the mode has no such band.
BandIndex(mode, channel) ==
    CASE mode = "RGBA" /\ channel = "R" -> 1
      [] mode = "RGBA" /\ channel = "G" -> 2
      [] mode = "RGBA" /\ channel = "B" -> 3
      [] mode = "RGBA" /\ channel = "A" -> 4
      [] mode = "RGB" /\ channel = "R" -> 1
      [] mode = "RGB" /\ channel = "G" -> 2
      [] mode = "RGB" /\ channel = "B" -> 3
      [] mode = "LA" /\ channel = "A" -> 2
      [] OTHER -> 0

\* GetChannel giving the first band whatever the channel named.
GetChannelFirstBand(image, channel) ==
    [mode |-> "L", width |-> image.width, height |-> image.height,
     px |-> [p \in DOMAIN image.px |-> << image.px[p][1] >>]]

\* image.getchannel(channel)
GetChannel(image, channel) ==
    [mode |-> "L", width |-> image.width, height |-> image.height,
     px |-> [p \in DOMAIN image.px |->
                << image.px[p][BandIndex(image.mode, channel)] >>]]

ImageChannelInvoke(ctx, name, channel) ==
    LET call == Call("img_chan", ctx, <<name>>, [channel |-> channel]) IN
    IF ~Exists(name) THEN Raise(call)
    ELSE IF BandIndex(GetPilImage(name).mode, channel) = 0 THEN Raise(call)
    ELSE CreateAndReturn(call, GetChannel(GetPilImage(name), channel),
                         "GENERAL", FALSE)

\* ---------------------------------------------------------------- convert
\* The target modes tried, of IMAGE_MODES.
ConvertModes == {"L", "RGB", "RGBA"}

\* ITU-R 601-2 luma of Pillow's RGB -> L conversion.
Luma(r, g, b) == (r * 19595 + g * 38470 + b * 7471 + 32768) \div 65536

ConvertPixel(from, to, b) ==
    CASE to = "RGBA" -> ToRGBA(from, b)
      [] to = "RGB" -> <<ToRGBA(from, b)[1], ToRGBA(from, b)[2], ToRGBA(from, b)[3]>>
      [] to = "LA" ->
            IF from \in {"L", "LA"} THEN <<b[1], ToRGBA(from, b)[4]>>
            ELSE <<Luma(b[1], b[2], b[3]), ToRGBA(from, b)[4]>>
      [] to = "L" ->
            IF from \in {"L", "LA"} THEN <<b[1]>>
            ELSE <<Luma(b[1], b[2], b[3])>>

\* image.convert(mode)
Convert(image, mode) ==
    [mode |-> mode, width |-> image.width, height |-> image.height,
     px |-> [p \in DOMAIN image.px |-> ConvertPixel(image.mode, mode, image.px[p])]]

ImageConvertInvoke(ctx, name, mode) ==
    LET call == Call("img_conv", ctx, <<name>>, [mode |-> mode]) IN
    IF ~Exists(name) THEN Raise(call)
    ELSE CreateAndReturn(call, Convert(GetPilImage(name), mode), "GENERAL", FALSE)

\* ---------------------------------------------------------------- blur
\* Pillow blurs with box filters: a box of radius r weighs the 2R+1 pixels
\* around a pixel by W and the two pixels at distance R+1 by F (the fraction
\* of r), lines being extended by their edge pixels.  GaussianBlur(radius)
\* is `passes` boxes of the radius derived from radius; BoxBlur(radius) is
\* one box.  The kernels of the radii tried (weights to rounding):
BlurKernel(blur_type, radius) ==
    CASE radius = 0 -> [R |-> 0, W |-> 1, F |-> 0, passes |-> 1]
      [] blur_type = "box" /\ radius = 1 -> [R |-> 1, W |-> 1, F |-> 0, passes |-> 1]
      [] blur_type = "gaussian" /\ radius = 1 ->
            [R |-> 0, W |-> 4, F |-> 1, passes |-> 3]
      [] blur_type = "gaussian" /\ radius = 32 ->
            [R |-> 31, W |-> 128, F |-> 63, passes |-> 3]

RECURSIVE RangeSum(_, _, _)
\* Sum of line[k] for k in lo .. hi.
RangeSum(line, lo, hi) ==
    IF lo > hi THEN 0 ELSE line[lo] + RangeSum(line, lo + 1, hi)

\* One box over a line (a function on 0 .. n-1), at position i.
BoxAt(line, n, i, ker) ==
    LET Clamp(k) == Max(0, Min(n - 1, k))
        inner == Max(0, ker.R - i) * line[0]
                 + Max(0, i + ker.R - (n - 1)) * line[n - 1]
                 + RangeSum(line, Max(0, i - ker.R), Min(n - 1, i + ker.R))
        outer == line[Clamp(i - ker.R - 1)] + line[Clamp(i + ker.R + 1)]
        total == ker.W * (2 * ker.R + 1) + 2 * ker.F
    IN  (ker.W * inner + ker.F * outer + total \div 2) \div total

\* One horizontal box over every row and band of an image.
HorizontalBox(image, ker) ==
    [image EXCEPT !.px = [p \in DOMAIN image.px |->
        [k \in 1 .. Bands(image.mode) |->
            BoxAt([i \in 0 .. image.width - 1 |-> image.px[<<i, p[2]>>][k]],
                  image.width, p[1], ker)]]]

\* One vertical box over every column and band of an image.
VerticalBox(image, ker) ==
    [image EXCEPT !.px = [p \in DOMAIN image.px |->
        [k \in 1 .. Bands(image.mode) |->
            BoxAt([j \in 0 .. image.height - 1 |-> image.px[<<p[1], j>>][k]],
                  image.height, p[2], ker)]]]

RECURSIVE HorizontalPasses(_, _, _)
HorizontalPasses(image, ker, n) ==
    IF n = 0 THEN image ELSE HorizontalPasses(HorizontalBox(image, ker), ker, n - 1)

RECURSIVE VerticalPasses(_, _, _)
VerticalPasses(image, ker, n) ==
    IF n = 0 THEN image ELSE VerticalPasses(VerticalBox(image, ker), ker, n - 1)

\* image.filter(ImageFilter.GaussianBlur(radius) or ImageFilter.BoxBlur(radius))
Blur(image, blur_type, radius) ==
    LET ker == BlurKernel(blur_type, radius) IN
    IF ker.R = 0 /\ ker.F = 0 THEN image
    ELSE VerticalPasses(HorizontalPasses(image, ker, ker.passes), ker, ker.passes)

ImageBlurInvoke(ctx, name, radius, blur_type) ==
    LET call == Call("img_blur", ctx, <<name>>,
                     [radius |-> radius, blur_type |-> blur_type]) IN
    IF ~Exists(name) THEN Raise(call)
    ELSE CreateAndReturn(call, Blur(GetPilImage(name), blur_type, radius),
                         "GENERAL", FALSE)

\* ---------------------------------------------------------------- resize / scale
\* Field(ge=64, multiple_of=8) of ImageResizeInvocation.width and .height.
ResizeMin == 64
ResizeStep == 8
\* An omitted width or height (the Union[int, None] field left at None).
None == -1

\* image.resize(size, resample=NEAREST): raises unless both sides are >= 1.
CanResize(width, height) == width >= 1 /\ height >= 1
Resize(image, width, height) ==
    [mode |-> image.mode, width |-> width, height |-> height,
     px |-> [p \in Pos(width, height) |->
        image.px[<< ((2 * p[1] + 1) * image.width) \div (2 * width),
                    ((2 * p[2] + 1) * image.height) \div (2 * height) >>]]]

ImageResizeInvoke(ctx, name, width, height) ==
    LET call == Call("img_resize", ctx, <<name>>,
                     [width |-> width, height |-> height,
                      resample_mode |-> "nearest"]) IN
    IF ~Exists(name) THEN Raise(call)
    ELSE IF width = None \/ height = None THEN Raise(call)
    ELSE IF ~CanResize(width, height) THEN Raise(call)
    ELSE CreateAndReturn(call, Resize(GetPilImage(name), width, height),
                         "GENERAL", FALSE)

\* int(side * scale_factor) for scale_factor = num / den, an exact binary
\* fraction, so that the float product is exact.
ScaledSide(side, num, den) == (side * num) \div den

ImageScaleInvoke(ctx, name, num, den) ==
    LET call == Call("img_scale", ctx, <<name>>,
                     [num |-> num, den |-> den, resample_mode |-> "nearest"]) IN
    IF ~Exists(name) THEN Raise(call)
    ELSE LET image == GetPilImage(name)
             width == ScaledSide(image.width, num, den)
             height == ScaledSide(image.height, num, den)
         IN  IF ~CanResize(width, height) THEN Raise(call)
             ELSE CreateAndReturn(call, Resize(image, width, height),
                                  "GENERAL", FALSE)

\* ---------------------------------------------------------------- lerp
\* Toward-zero truncation of a / b, b > 0 (numpy.uint8 of a float drops the
\* fraction).
Trunc(a, b) == IF a >= 0 THEN a \div b ELSE -((-a) \div b)

\* numpy.uint8 of a whole number.  Outside 0 .. 255 the C conversion is
\* undefined: builds either keep the low eight bits or saturate.
CastPolicies == {"wrap", "saturate"}
Uint8(n, policy) ==
    IF n \in 0 .. 255 THEN n
    ELSE IF policy = "wrap" THEN n % 256
    ELSE IF n < 0 THEN 0 ELSE 255

\* One value through ImageLerpInvocation:
\*   uint8(v / 255 * (max - min) + max)
LerpValue(v, min, max, policy) ==
    Uint8(Trunc(v * (max - min) + 255 * max, 255), policy)

\* One value through ImageInverseLerpInvocation:
\*   uint8(minimum(maximum(v - min, 0) / float(max - min), 1) * 255)
\* With max = min the quotient is inf (v > min) or nan (v <= min);
\* minimum(inf, 1) is 1, nan stays nan and converts to 0.
InverseLerpValue(v, min, max, policy) ==
    LET a == Max(v - min, 0)
        d == max - min
    IN  IF d = 0 THEN (IF a > 0 THEN 255 ELSE 0)
        ELSE IF d > 0 THEN (IF a >= d THEN 255 ELSE (a * 255) \div d)
        ELSE Uint8(-((a * 255) \div (-d)), policy)

\* The array operation on every band of every pixel; op gives the result for
\* each 8-bit value.
MapValues(image, op) ==
    [image EXCEPT !.px = [p \in DOMAIN image.px |->
        [k \in 1 .. Bands(image.mode) |-> op[image.px[p][k]]]]]

ImageLerpInvoke(ctx, name, min, max, policy) ==
    LET call == Call("img_lerp", ctx, <<name>>,
                     [min |-> min, max |-> max, policy |-> policy]) IN
    IF ~Exists(name) THEN Raise(call)
    ELSE LET op == [v \in 0 .. 255 |-> LerpValue(v, min, max, policy)] IN
         CreateAndReturn(call, MapValues(GetPilImage(name), op), "GENERAL", FALSE)

ImageInverseLerpInvoke(ctx, name, min, max, policy) ==
    LET call == Call("img_ilerp", ctx, <<name>>,
                     [min |-> min, max |-> max, policy |-> policy]) IN
    IF ~Exists(name) THEN Raise(call)
    ELSE LET op == [v \in 0 .. 255 |-> InverseLerpValue(v, min, max, policy)] IN
         CreateAndReturn([call EXCEPT !.divByZero = (max - min = 0)],
                         MapValues(GetPilImage(name), op), "GENERAL", FALSE)

\* ---------------------------------------------------------------- NSFW blur
\* Radius of the blur of a flagged image.
NsfwBlurRadius == 32

\* The overlay _get_caution_img returns is an asset outside this file:
\* the overlays tried have a transparent, a translucent and opaque pixels.
CautionImages ==
    { MkImage("RGBA", << << <<0, 0, 0, 0>>, <<255, 200, 0, 255>> >>,
                         << <<255, 200, 0, 255>>, <<0, 0, 0, 128>> >> >>),
      MkImage("RGBA", << << <<255, 200, 0, 255>> >> >>) }

\* image.paste(im, (0, 0), im) for an RGBA im: im is converted to the
\* image's mode (left RGBA for an RGB image) and blended under its own alpha.
PasteOverlay(image, im) ==
    [image EXCEPT !.px =
        [p \in Pos(image.width, image.height) |->
            IF p \in Pos(im.width, im.height)
            THEN [k \in 1 .. Bands(image.mode) |->
                    Blend(im.px[p][4], image.px[p][k],
                          ConvertPixel("RGBA", image.mode, im.px[p])[k])]
            ELSE image.px[p]]]

\* What the invocation stores for a flagged image.
Redact(image, caution) ==
    PasteOverlay(Blur(image, "gaussian", NsfwBlurRadius), caution)

\* numpy.array(image)[None].transpose(0, 3, 1, 2) needs a banded array.
CanCheck(image) == image.mode # "L"

\* ImageNSFWBlurInvoke pasting the overlay into the fetched image itself.
ImageNSFWBlurInPlace(ctx, name, enabled, metadata, available, detected, caution) ==
    LET call == Call("img_nsfw", ctx, <<name>>,
                     [enabled |-> enabled, metadata |-> metadata,
                      available |-> available, detected |-> detected,
                      caution |-> caution]) IN
    IF ~Exists(name) THEN Raise(call)
    ELSE LET image == GetPilImage(name) IN
         IF ~enabled THEN CreateAndReturn(call, image, "GENERAL", metadata)
         ELSE LET loading == [call EXCEPT !.checkerLoaded = TRUE] IN
              IF ~available THEN Raise(loading)
              ELSE IF ~CanCheck(image) THEN Raise(loading)
              ELSE IF detected
                   THEN LET img == PasteOverlay(image, caution) IN
                        /\ store' = ImagesCreate(
                                [store EXCEPT ![name].image = img],
                                CreateArgs(loading, img, "GENERAL", metadata))
                        /\ last' = [loading EXCEPT !.status = "ok",
                                        !.output = Len(store) + 1,
                                        !.width = img.width, !.height = img.height]
                        /\ ninv' = ninv + 1
                   ELSE CreateAndReturn(loading, image, "GENERAL", metadata)

\* ImageNSFWBlurInvoke redacting whatever the checker reports.
ImageNSFWBlurAlways(ctx, name, enabled, metadata, available, detected, caution) ==
    LET call == Call("img_nsfw", ctx, <<name>>,
                     [enabled |-> enabled, metadata |-> metadata,
                      available |-> available, detected |-> detected,
                      caution |-> caution]) IN
    IF ~Exists(name) THEN Raise(call)
    ELSE LET image == GetPilImage(name) IN
         IF ~enabled THEN CreateAndReturn(call, image, "GENERAL", metadata)
         ELSE LET loading == [call EXCEPT !.checkerLoaded = TRUE] IN
              IF ~available THEN Raise(loading)
              ELSE IF ~CanCheck(image) THEN Raise(loading)
              ELSE CreateAndReturn(loading, Redact(image, caution),
                                   "GENERAL", metadata)

\* available: the checker's weights load; detected: has_nsfw_concept[0].
ImageNSFWBlurInvoke(ctx, name, enabled, metadata, available, detected, caution) ==
    LET call == Call("img_nsfw", ctx, <<name>>,
                     [enabled |-> enabled, metadata |-> metadata,
                      available |-> available, detected |-> detected,
                      caution |-> caution]) IN
    IF ~Exists(name) THEN Raise(call)
    ELSE LET image == GetPilImage(name) IN
         IF ~enabled THEN CreateAndReturn(call, image, "GENERAL", metadata)
         ELSE LET loading == [call EXCEPT !.checkerLoaded = TRUE] IN
              IF ~available THEN Raise(loading)
              ELSE IF ~CanCheck(image) THEN Raise(loading)
              ELSE IF detected
                   THEN CreateAndReturn(loading, Redact(image, caution),
                                        "GENERAL", metadata)
                   ELSE CreateAndReturn(loading, image, "GENERAL", metadata)

\* ---------------------------------------------------------------- watermark
\* WatermarkEncoder.encode raises for an image of fewer pixels than this;
\* every image within the bounds is smaller, so the enabled invocation raises.
WatermarkMinPixels == 65536

ImageWatermarkInvoke(ctx, name, enabled, metadata) ==
    LET call == Call("img_watermark", ctx, <<name>>,
                     [enabled |-> enabled, metadata |-> metadata]) IN
    /\ Exists(name) =>
          GetPilImage(name).width * GetPilImage(name).height < WatermarkMinPixels
    /\ IF ~Exists(name) THEN Raise(call)
       ELSE IF enabled THEN Raise(call)
       ELSE CreateAndReturn(call, GetPilImage(name), "GENERAL", metadata)

\* ---------------------------------------------------------------- specifications
Init ==
    /\ store = Catalogue
    /\ last = NoCall
    /\ ninv = 0

\* Names an ImageField may carry: one that is not stored, and the stored
\* images of sides up to MaxSide.
Names ==
    {Missing} \cup { n \in 1 .. Len(store) :
                        /\ store[n].image.width <= MaxSide
                        /\ store[n].image.height <= MaxSide }
Offsets == -MaxOff .. MaxOff
Sides == 1 .. MaxDim

\* (min, max) of the lerp invocations tried, within Field(ge=0, le=255).
LerpBounds == { <<0, 255>>, <<64, 192>>, <<100, 100>>, <<255, 0>> }

\* (enabled, available, detected) of the NSFW invocations tried; what the
\* invocation never looks at is left at one value.
NsfwCases ==
    { <<FALSE, TRUE, FALSE>>, <<TRUE, FALSE, FALSE>>,
      <<TRUE, TRUE, FALSE>>, <<TRUE, TRUE, TRUE>> }
Caution0 == CHOOSE c \in CautionImages : c.width = 1

\* The executor runs one more invocation, of any type of the file, over a
\* narrow choice of parameters.
Running == ninv < MaxInvokes

RunLoadImage ==
    Running /\ \E ctx \in Contexts, name \in Names : LoadImageInvoke(ctx, name)

RunShowImage ==
    Running /\ \E ctx \in Contexts, name \in Names : ShowImageInvoke(ctx, name)

RunCrop ==
    Running /\ \E ctx \in Contexts, name \in Names, o \in {-1, 1} :
        ImageCropInvoke(ctx, name, o, -o, 2, 1)

RunPaste ==
    Running /\ \E ctx \in Contexts, base_name \in Names, name \in Names :
        \E mask_name \in {NoMask, Missing, name} :
            ImagePasteInvoke(ctx, base_name, name, mask_name, -1, 1)

RunMaskFromAlpha ==
    Running /\ \E ctx \in Contexts, name \in Names, invert \in BOOLEAN :
        MaskFromAlphaInvoke(ctx, name, invert)

RunMultiply ==
    Running /\ \E ctx \in Contexts, name1 \in Names, name2 \in Names :
        ImageMultiplyInvoke(ctx, name1, name2)

RunChannel ==
    Running /\ \E ctx \in Contexts, name \in Names, channel \in {"A", "G"} :
        ImageChannelInvoke(ctx, name, channel)

RunConvert ==
    Running /\ \E ctx \in Contexts, name \in Names, mode \in {"L", "RGBA"} :
        ImageConvertInvoke(ctx, name, mode)

RunBlur ==
    Running /\ \E ctx \in Contexts, name \in Names, blur_type \in {"gaussian", "box"} :
        ImageBlurInvoke(ctx, name, 1, blur_type)

RunResize ==
    Running /\ \E ctx \in Contexts, name \in Names, width \in {None, ResizeMin} :
        ImageResizeInvoke(ctx, name, width, ResizeMin)

RunScale ==
    Running /\ \E ctx \in Contexts, name \in Names, f \in { <<1, 4>>, <<2, 1>> } :
        ImageScaleInvoke(ctx, name, f[1], f[2])

RunLerp ==
    Running /\ \E ctx \in Contexts, name \in Names,
                  b \in { <<0, 255>>, <<255, 0>> }, policy \in CastPolicies :
        ImageLerpInvoke(ctx, name, b[1], b[2], policy)

RunInverseLerp ==
    Running /\ \E ctx \in Contexts, name \in Names,
                  b \in { <<0, 255>>, <<100, 100>> }, policy \in {"wrap"} :
        ImageInverseLerpInvoke(ctx, name, b[1], b[2], policy)

RunNSFWBlur ==
    Running /\ \E ctx \in Contexts, name \in Names, c \in NsfwCases,
                  caution \in CautionImages :
        /\ ~c[3] => caution = Caution0
        /\ ImageNSFWBlurInvoke(ctx, name, c[1], c[3], c[2], c[3], caution)

RunWatermark ==
    Running /\ \E ctx \in Contexts, name \in Names, enabled \in BOOLEAN :
        ImageWatermarkInvoke(ctx, name, enabled, ~enabled)

Next ==
    \/ RunLoadImage
    \/ RunShowImage
    \/ RunCrop
    \/ RunPaste
    \/ RunMaskFromAlpha
    \/ RunMultiply
    \/ RunChannel
    \/ RunConvert
    \/ RunBlur
    \/ RunResize
    \/ RunScale
    \/ RunLerp
    \/ RunInverseLerp
    \/ RunNSFWBlur
    \/ RunWatermark

Spec == Init /\ [][Next]_vars

\* One crop of a stored image, over every offset and size within the bounds.
NextCrop ==
    /\ last.type = "none"
    /\ \E ctx \in Contexts, name \in Names, x \in Offsets, y \in Offsets,
          width \in Sides, height \in Sides :
            ImageCropInvoke(ctx, name, x, y, width, height)

SpecCrop == Init /\ [][NextCrop]_vars

\* One paste, over every base, image, mask and offset within the bounds.
NextPaste ==
    /\ last.type = "none"
    /\ \E ctx \in Contexts, base_name \in Names, name \in Names,
          mask_name \in Names \cup {NoMask}, x \in Offsets, y \in Offsets :
            ImagePasteInvoke(ctx, base_name, name, mask_name, x, y)

SpecPaste == Init /\ [][NextPaste]_vars

\* Lerp and inverse lerp over every 8-bit value: the store starts with a
\* one-pixel image of any value; one of the two runs on it, and the other
\* may then run, with the same bounds, on what the first stored.
Ctx0 == CHOOSE c \in Contexts : c.id = 1

InitLerp ==
    /\ \E v \in 0 .. 255 : store = << External(MkImage("L", << << <<v>> >> >>)) >>
    /\ last = NoCall
    /\ ninv = 0

\* The first invocation, or the second on the output of the first.
Chained(name, min, max, policy) ==
    \/ last.type = "none"
    \/ /\ last.status = "ok"
       /\ last.inputs = <<1>>
       /\ name = last.output
       /\ <<min, max, policy>> = <<last.args.min, last.args.max, last.args.policy>>

LerpStep ==
    /\ last.type # "img_lerp"
    /\ \E name \in Names, b \in LerpBounds, policy \in CastPolicies :
        /\ Chained(name, b[1], b[2], policy)
        /\ ImageLerpInvoke(Ctx0, name, b[1], b[2], policy)

InverseLerpStep ==
    /\ last.type # "img_ilerp"
    /\ \E name \in Names, b \in LerpBounds, policy \in CastPolicies :
        /\ Chained(name, b[1], b[2], policy)
        /\ ImageInverseLerpInvoke(Ctx0, name, b[1], b[2], policy)

NextLerp == LerpStep \/ InverseLerpStep

SpecLerp == InitLerp /\ [][NextLerp]_vars

\* One resize or scale.  Widths and heights are the omitted one and the
\* first two the field accepts; scale factors are binary fractions.
ResizeSides == {None, ResizeMin, ResizeMin + ResizeStep}
ScaleFactors == { <<1, 4>>, <<1, 2>>, <<1, 1>>, <<3, 2>>, <<2, 1>>, <<3, 1>> }

ResizeStepOnce ==
    /\ last.type = "none"
    /\ \E ctx \in Contexts, name \in Names,
          width \in ResizeSides, height \in ResizeSides :
            ImageResizeInvoke(ctx, name, width, height)

ScaleStepOnce ==
    /\ last.type = "none"
    /\ \E ctx \in Contexts, name \in Names, f \in ScaleFactors :
            ImageScaleInvoke(ctx, name, f[1], f[2])

NextResize == ResizeStepOnce \/ ScaleStepOnce

SpecResize == Init /\ [][NextResize]_vars

\* One NSFW invocation.
NextNSFW ==
    /\ last.type = "none"
    /\ \E ctx \in Contexts, name \in Names, c \in NsfwCases,
          metadata \in BOOLEAN, caution \in CautionImages :
            /\ ~c[3] => caution = Caution0
            /\ ImageNSFWBlurInvoke(ctx, name, c[1], metadata, c[2], c[3], caution)

SpecNSFW == Init /\ [][NextNSFW]_vars

\* Mask-from-alpha invocations, one after another, on any stored image
\* (the masks stored earlier included) with either setting of invert.
NextMask ==
    /\ ninv < MaskRuns
    /\ \E ctx \in Contexts, name \in Names, invert \in BOOLEAN :
          MaskFromAlphaInvoke(ctx, name, invert)

SpecMask == Init /\ [][NextMask]_vars

\* Channel invocations, one after another, on any stored image (the
\* channels stored earlier included) for every channel name.
NextChannel ==
    /\ ninv < ChannelRuns
    /\ \E ctx \in Contexts, name \in Names, channel \in IMAGE_CHANNELS :
          ImageChannelInvoke(ctx, name, channel)

SpecChannel == Init /\ [][NextChannel]_vars

\* A stored greyscale image of the size of ImgRGB, to paste it through:
\* white keeps the base, grey lets the pasted pixel through in part.
ImgMask == MkImage("L", << << <<255>>, <<100>> >> >>)

InitPlace ==
    /\ store = Catalogue \o << External(ImgMask) >>
    /\ last = NoCall
    /\ ninv = 0

\* One paste, with or without a mask, over every offset within the bounds.
NextPlace ==
    /\ last.type = "none"
    /\ \E base_name \in Names, name \in Names,
          mask_name \in Names \cup {NoMask}, x \in Offsets, y \in Offsets :
            ImagePasteInvoke(Ctx0, base_name, name, mask_name, x, y)

SpecPlace == InitPlace /\ [][NextPlace]_vars

\* ---------------------------------------------------------------- claims
Invoked(type) == last.type = type
Returned(type) == last.type = type /\ last.status = "ok"
Input(i) == store[last.inputs[i]].image
Output == store[last.output].image

\* The invocation types that derive an image.
Deriving ==
    {"img_crop", "img_paste", "tomask", "img_mul", "img_chan", "img_conv",
     "img_blur", "img_resize", "img_scale", "img_lerp", "img_ilerp", "img_nsfw",
     "img_watermark"}

\* C1: every invoke leaves each stored record under its name, unchanged, and
\* a deriving invoke that returns names a record that was not there before.
C1_InputsPreserved ==
    [][ /\ \A n \in 1 .. Len(store) : n <= Len(store') /\ store'[n] = store[n]
        /\ (last'.status = "ok" /\ last'.type \in Deriving) =>
                /\ last'.output \notin 1 .. Len(store)
                /\ last'.output \in 1 .. Len(store') ]_vars

\* A flagged image was redacted and stored: the stored image differs from
\* the input, which is still in the store.
C1_Witness ==
    /\ Returned("img_nsfw")
    /\ last.args.detected
    /\ Output # Input(1)

\* C2: a deriving invoke that returns made exactly one create call, with its
\* own is_intermediate, its id as node_id and the context's session id;
\* load_image and show_image make none and return the input's name.
C2_OneCreate ==
    [][ /\ (last'.status = "ok" /\ last'.type \in Deriving) =>
                /\ Len(store') = Len(store) + 1
                /\ last'.output = Len(store')
                /\ store'[Len(store')].is_intermediate = last'.ctx.is_intermediate
                /\ store'[Len(store')].node_id = last'.ctx.id
                /\ store'[Len(store')].session_id = last'.ctx.session
        /\ last'.type \in {"load_image", "show_image"} =>
                /\ store' = store
                /\ last'.status = "ok" => last'.output = last'.inputs[1] ]_vars

\* A crop flagged intermediate stored an intermediate record.
C2_Witness ==
    /\ Returned("img_crop")
    /\ last.ctx.is_intermediate
    /\ store[last.output].is_intermediate

\* C3: a crop of a stored image returns a width x height RGBA canvas whose
\* pixel p is the source's pixel p + (x, y) where the source has one, and
\* (0, 0, 0, 0) elsewhere.
C3_CropCanvas ==
    Invoked("img_crop") /\ last.inputs[1] # Missing =>
        /\ last.status = "ok"
        /\ Output.mode = "RGBA"
        /\ Output.width = last.args.width
        /\ Output.height = last.args.height
        /\ DOMAIN Output.px = Pos(last.args.width, last.args.height)
        /\ \A p \in DOMAIN Output.px :
              LET q == <<p[1] + last.args.x, p[2] + last.args.y>> IN
              IF q \in DOMAIN Input(1).px
              THEN Output.px[p] = ToRGBA(Input(1).mode, Input(1).px[q])
              ELSE Output.px[p] = <<0, 0, 0, 0>>

\* A crop at a negative offset whose canvas shows part of the source and
\* part of what lies outside it.
C3_Witness ==
    /\ Returned("img_crop")
    /\ last.args.x < 0
    /\ last.args.y > 0
    /\ \E p \in DOMAIN Output.px : Output.px[p] = <<0, 0, 0, 0>>
    /\ \E p \in DOMAIN Output.px : Output.px[p] # <<0, 0, 0, 0>>

\* Columns and rows the base image and the pasted image cover.
UnionColumns == (0 .. Input(1).width - 1)
                    \cup (last.args.x .. last.args.x + Input(2).width - 1)
UnionRows == (0 .. Input(1).height - 1)
                    \cup (last.args.y .. last.args.y + Input(2).height - 1)
Extent(S) == 1 + (CHOOSE hi \in S : \A k \in S : k <= hi)
               - (CHOOSE lo \in S : \A k \in S : lo <= k)

\* C4: the canvas a paste stores is as wide and as high as the bounding box
\* of the base image's box and the pasted image's box at (x, y).
C4_PasteBounds ==
    Returned("img_paste") =>
        /\ Output.width = Extent(UnionColumns)
        /\ Output.height = Extent(UnionRows)
        /\ last.width = Output.width
        /\ last.height = Output.height

\* A paste left of and below the base that widens the canvas both ways.
C4_Witness ==
    /\ Returned("img_paste")
    /\ last.args.x < 0
    /\ last.args.y > 0
    /\ Output.width > Input(1).width
    /\ Output.height > Input(1).height

\* C5: lerp maps every value v of the source into the target range:
\* 0 to min, 255 to max, every output between min and max, the output
\* being v / 255 * (max - min) + min without its fraction.
C5_LerpIntoRange ==
    Returned("img_lerp") =>
        \A p \in DOMAIN Input(1).px : \A k \in 1 .. Bands(Input(1).mode) :
            LET v == Input(1).px[p][k]
                o == Output.px[p][k]
            IN  /\ o = Trunc(v * (last.args.max - last.args.min)
                               + 255 * last.args.min, 255)
                /\ Min(last.args.min, last.args.max) <= o
                /\ o <= Max(last.args.min, last.args.max)
                /\ v = 0 => o = last.args.min
                /\ v = 255 => o = last.args.max

\* C6: with min = 0 and max = 255, lerp then inverse lerp, and inverse lerp
\* then lerp, give back every value of the first input to within 1.
C6_RoundTrip ==
    [][ ( /\ last.status = "ok"
          /\ last'.status = "ok"
          /\ {last.type, last'.type} = {"img_lerp", "img_ilerp"}
          /\ last'.inputs = <<last.output>>
          /\ <<last.args.min, last.args.max>> = <<0, 255>>
          /\ <<last'.args.min, last'.args.max>> = <<0, 255>> )
        => \A p \in DOMAIN store[last.inputs[1]].image.px :
               Abs(store'[last'.output].image.px[p][1]
                     - store[last.inputs[1]].image.px[p][1]) <= 1 ]_vars

\* C7: an inverse lerp whose max equals its min divides by zero in no invoke.
C7_NoDivisionByZero ==
    Invoked("img_ilerp") /\ last.args.max = last.args.min => ~last.divByZero

\* C8: resize stores an image of exactly the requested width and height, and
\* scale one of exactly the floors of the scaled sides, for every stored
\* source and every parameter value the fields accept.
C8_ExactDimensions ==
    /\ Invoked("img_resize") /\ last.inputs[1] # Missing =>
          /\ last.status = "ok"
          /\ Output.width = last.args.width
          /\ Output.height = last.args.height
    /\ Invoked("img_scale") /\ last.inputs[1] # Missing =>
          /\ last.status = "ok"
          /\ Output.width = (Input(1).width * last.args.num) \div last.args.den
          /\ Output.height = (Input(1).height * last.args.num) \div last.args.den

\* C9 as stated: the stored image is the input exactly when the checker is
\* disabled or reports nothing; a flagged image is stored changed.
C9_IdenticalExactlyWhenUnflagged ==
    Returned("img_nsfw") =>
        (Output = Input(1) <=> (~last.args.enabled \/ ~last.args.detected))

\* C9, amended: an unflagged image is stored as it was fetched; a flagged one
\* is stored blurred, with the overlay's opaque pixels over it from (0, 0),
\* its translucent pixels mixed with the blur, and the blur showing where the
\* overlay is transparent or ends; whether that differs from the input
\* depends on the image.  A disabled invocation
\* never loads the checker.
C9_Redaction ==
    /\ Invoked("img_nsfw") /\ ~last.args.enabled => ~last.checkerLoaded
    /\ Returned("img_nsfw") /\ ~(last.args.enabled /\ last.args.detected) =>
          Output = Input(1)
    /\ Returned("img_nsfw") /\ last.args.enabled /\ last.args.detected =>
          LET blurred == Blur(Input(1), "gaussian", NsfwBlurRadius)
              caution == last.args.caution
          IN  /\ last.checkerLoaded
              /\ Output.mode = Input(1).mode
              /\ DOMAIN Output.px = DOMAIN Input(1).px
              /\ \A p \in DOMAIN Output.px :
                    IF p \in DOMAIN caution.px /\ caution.px[p][4] = 255
                    THEN Output.px[p] =
                            ConvertPixel("RGBA", Output.mode, caution.px[p])
                    ELSE IF p \in DOMAIN caution.px /\ caution.px[p][4] # 0
                    THEN \A k \in 1 .. Bands(Output.mode) :
                            LET over == ConvertPixel("RGBA", Output.mode,
                                                     caution.px[p])[k]
                            IN  /\ Min(over, blurred.px[p][k]) <= Output.px[p][k]
                                /\ Output.px[p][k] <= Max(over, blurred.px[p][k])
                    ELSE Output.px[p] = blurred.px[p]

\* A flagged image that was stored changed, under an opaque overlay pixel.
C9_Witness ==
    /\ Returned("img_nsfw")
    /\ last.args.enabled /\ last.args.detected
    /\ Output # Input(1)
    /\ \E p \in DOMAIN Output.px :
          /\ p \in DOMAIN last.args.caution.px
          /\ last.args.caution.px[p][4] = 255

\* C10: an invoke with an input that names no stored image raises and leaves
\* the store as it was: no record is created.
C10_MissingInputFails ==
    [][ (\E i \in DOMAIN last'.inputs :
            last'.inputs[i] # NoMask /\ last'.inputs[i] \notin 1 .. Len(store))
        => last'.status = "error" /\ store' = store ]_vars

\* A paste whose base and image are stored and whose mask is not has raised.
C10_Witness ==
    /\ Invoked("img_paste")
    /\ last.inputs[1] # Missing /\ last.inputs[2] # Missing
    /\ last.inputs[3] = Missing
    /\ last.status = "error"
    /\ store = Catalogue

\* C11: the mask made with invert = true, inverted once more (a to 255 - a),
\* equals the mask made from the same source with invert = false.
C11_InvertInvolution ==
    [][ ( /\ last.type = "tomask" /\ last.status = "ok"
          /\ last'.type = "tomask" /\ last'.status = "ok"
          /\ last'.inputs = last.inputs
          /\ last'.args.invert # last.args.invert )
        => LET inverted == IF last.args.invert THEN store'[last.output].image
                           ELSE store'[last'.output].image
               plain == IF last.args.invert THEN store'[last'.output].image
                        ELSE store'[last.output].image
           IN  /\ <<inverted.mode, inverted.width, inverted.height>>
                    = <<plain.mode, plain.width, plain.height>>
               /\ \A p \in DOMAIN plain.px :
                     <<255 - inverted.px[p][1]>> = plain.px[p] ]_vars

\* The plain and then the inverted mask of one source with alpha values
\* other than 0 and 255 are stored, and they differ.
C11_Witness ==
    /\ Returned("tomask") /\ last.args.invert
    /\ Len(store) = Len(Catalogue) + 2
    /\ last.inputs[1] \in 1 .. Len(Catalogue)
    /\ store[Len(store) - 1].image_category = "MASK"
    /\ \A p \in DOMAIN Output.px :
          <<255 - Output.px[p][1]>> = store[Len(store) - 1].image.px[p]
    /\ \E p \in DOMAIN Output.px : Output.px[p][1] \notin {0, 255}

\* C12: the mask stored with invert = false equals the alpha channel of the
\* source, whatever its band layout: the A band of an RGBA or LA source,
\* full opacity for an RGB or L source, which has no A band.
C12_ExtractsAlpha ==
    (Returned("tomask") /\ ~last.args.invert) =>
        /\ <<Output.mode, Output.width, Output.height>>
             = <<"L", Input(1).width, Input(1).height>>
        /\ \A p \in DOMAIN Input(1).px :
              Output.px[p] =
                << CASE Input(1).mode = "RGBA" -> Input(1).px[p][4]
                     [] Input(1).mode = "LA" -> Input(1).px[p][2]
                     [] OTHER -> 255 >>

\* Band names of a PIL mode, in band order.
ModeBands(mode) ==
    CASE mode = "RGBA" -> <<"R", "G", "B", "A">>
      [] mode = "RGB" -> <<"R", "G", "B">>
      [] mode = "LA" -> <<"L", "A">>
      [] mode = "L" -> <<"L">>

\* The image stored by an invocation is the single-channel copy of band
\* number i of the source.
IsBandOf(out, source, i) ==
    /\ <<out.mode, out.width, out.height>> = <<"L", source.width, source.height>>
    /\ DOMAIN out.px = DOMAIN source.px
    /\ \A p \in DOMAIN source.px : out.px[p] = << source.px[p][i] >>

\* C13 as stated: for every stored source and every channel name the
\* channel invocation stores a single-channel image of the source's
\* dimensions, equal to the named channel.
C13_EveryChannelStored ==
    (Invoked("img_chan") /\ last.inputs[1] # Missing) =>
        /\ last.status = "ok"
        /\ <<Output.mode, Output.width, Output.height>>
             = <<"L", Input(1).width, Input(1).height>>
        /\ \A i \in DOMAIN ModeBands(Input(1).mode) :
              ModeBands(Input(1).mode)[i] = last.args.channel
                  => IsBandOf(Output, Input(1), i)

\* C13: when the channel named is a band of the stored source, the channel
\* invocation stores the single-channel copy of that band, of the source's
\* dimensions; when the source has no band of that name, it raises and
\* stores nothing.
C13_NamedChannel ==
    [][ (last'.type = "img_chan" /\ last'.inputs[1] \in 1 .. Len(store)) =>
          LET source == store[last'.inputs[1]].image
              named == { i \in DOMAIN ModeBands(source.mode) :
                            ModeBands(source.mode)[i] = last'.args.channel }
          IN  IF named # {}
              THEN /\ last'.status = "ok"
                   /\ Len(store') = Len(store) + 1
                   /\ last'.output = Len(store')
                   /\ \A i \in named :
                         IsBandOf(store'[last'.output].image, source, i)
                   /\ <<last'.width, last'.height>> = <<source.width, source.height>>
              ELSE last'.status = "error" /\ store' = store ]_vars

\* The blue channel of a four-band source was stored, and it differs from
\* the source's first and last bands.
C13_Witness ==
    /\ Returned("img_chan")
    /\ last.args.channel = "B"
    /\ Input(1).mode = "RGBA"
    /\ IsBandOf(Output, Input(1), 3)
    /\ ~IsBandOf(Output, Input(1), 1)
    /\ ~IsBandOf(Output, Input(1), 4)

\* The pixel of an image that a canvas position shows when the image's
\* top-left corner is at (ox, oy): converted to RGBA, transparent outside.
Shown(image, ox, oy, p) ==
    IF <<p[1] - ox, p[2] - oy>> \in DOMAIN image.px
    THEN ToRGBA(image.mode, image.px[<<p[1] - ox, p[2] - oy>>])
    ELSE <<0, 0, 0, 0>>

\* Where C14 puts the corners of the base and of the pasted image.
BaseCorner ==
    << IF last.args.x < 0 THEN -last.args.x ELSE 0,
       IF last.args.y < 0 THEN -last.args.y ELSE 0 >>
ImageCorner ==
    << IF last.args.x > 0 THEN last.args.x ELSE 0,
       IF last.args.y > 0 THEN last.args.y ELSE 0 >>

\* The pasted image is (x, y) from the base and both boxes lie inside the
\* canvas.
BothInsideCanvas ==
    /\ <<ImageCorner[1] - BaseCorner[1], ImageCorner[2] - BaseCorner[2]>>
         = <<last.args.x, last.args.y>>
    /\ DOMAIN Output.px = Pos(Output.width, Output.height)
    /\ BaseCorner[1] + Input(1).width <= Output.width
    /\ BaseCorner[2] + Input(1).height <= Output.height
    /\ ImageCorner[1] + Input(2).width <= Output.width
    /\ ImageCorner[2] + Input(2).height <= Output.height

\* C14 as stated: the canvas of a paste holds the base image with its
\* corner at (-min(0, x), -min(0, y)) and the pasted image with its corner
\* at (max(0, x), max(0, y)), both inside the canvas, and wherever the
\* pasted image lies the canvas shows it, over the base.
C14_DrawnOver ==
    Returned("img_paste") =>
        /\ BothInsideCanvas
        /\ \A p \in DOMAIN Output.px :
              IF <<p[1] - ImageCorner[1], p[2] - ImageCorner[2]>>
                    \in DOMAIN Input(2).px
              THEN Output.px[p] = Shown(Input(2), ImageCorner[1], ImageCorner[2], p)
              ELSE Output.px[p] = Shown(Input(1), BaseCorner[1], BaseCorner[2], p)

\* C14: the canvas of a paste holds the base image with its corner at
\* (-min(0, x), -min(0, y)) and the pasted image with its corner at
\* (max(0, x), max(0, y)): the pasted image is (x, y) from the base, both
\* lie inside the canvas, outside the pasted image the canvas shows the
\* base or nothing, and inside it the pasted image is drawn over the base:
\* whole without a mask; with a mask, whole under a black mask pixel, in
\* part under a grey one, not at all under a white one.
C14_PastePlacement ==
    Returned("img_paste") =>
        /\ BothInsideCanvas
        /\ \A p \in DOMAIN Output.px :
              LET under == Shown(Input(1), BaseCorner[1], BaseCorner[2], p)
                  over == Shown(Input(2), ImageCorner[1], ImageCorner[2], p)
                  q == <<p[1] - ImageCorner[1], p[2] - ImageCorner[2]>>
              IN  IF q \notin DOMAIN Input(2).px THEN Output.px[p] = under
                  ELSE IF last.inputs[3] = NoMask THEN Output.px[p] = over
                  ELSE LET m == Input(3).px[q][1] IN
                       /\ m = 0 => Output.px[p] = over
                       /\ m = 255 => Output.px[p] = under
                       /\ \A k \in 1 .. 4 :
                             /\ Min(under[k], over[k]) <= Output.px[p][k]
                             /\ Output.px[p][k] <= Max(under[k], over[k])

\* A paste through a mask, to the left of and below the base's origin,
\* whose canvas shows the pasted image over a different base pixel, the
\* base alone, and nothing.
C14_Witness ==
    /\ Returned("img_paste")
    /\ last.inputs[3] # NoMask
    /\ last.args.x < 0 /\ last.args.y > 0
    /\ \E p \in DOMAIN Output.px :
          /\ <<p[1], p[2] - last.args.y>> \in DOMAIN Input(2).px
          /\ <<p[1] + last.args.x, p[2]>> \in DOMAIN Input(1).px
          /\ Output.px[p] # Shown(Input(1), -last.args.x, 0, p)
    /\ \E p \in DOMAIN Output.px :
          /\ <<p[1], p[2] - last.args.y>> \notin DOMAIN Input(2).px
          /\ <<p[1] + last.args.x, p[2]>> \in DOMAIN Input(1).px
    /\ \E p \in DOMAIN Output.px :
          /\ <<p[1], p[2] - last.args.y>> \notin DOMAIN Input(2).px
          /\ <<p[1] + last.args.x, p[2]>> \notin DOMAIN Input(1).px

====
